---- MODULE Spec2Model ----
(***************************************************************************)
(* The photo rotation and scheduling engine of photos.local                *)
(* (scheduler.py, with the parts of models.py, display.py, google_photos.py *)
(* and app.py it works through).  Every thread of the process (HTTP        *)
(* handlers, button threads, the scheduler's job worker) is a caller that   *)
(* runs one operation at a time; an operation is a sequence of steps, one   *)
(* per access to shared state (the settings file, the cache directory, the  *)
(* module globals, the two locks).                                          *)
(***************************************************************************)
EXTENDS Integers, Sequences, FiniteSets, TLC

\* ------------------------------------------------------------------ bounds
MaxPhotos == 3

\* the do_setup threads button D may start in one run
MaxPresses == 3

\* the selections a traced run stores before it stops
MaxHist == 4

Threads == {"t1", "t2"}

\* scheduler.py:19
INTERVAL_OPTIONS == {5, 15, 30, 60, 180, 360, 720, 1440}

\* interval_minutes values a client posts to /settings (int(...) of any text)
IntervalInputs == {37, 180}

Orders == {"random", "sequential"}

\* the media items a picker session may bring (a file is named after its item)
AllIds == 1..MaxPhotos

\* models.py:25-30
DEFAULT_SLIDESHOW ==
    [order |-> "random", interval_minutes |-> 60, enabled |-> TRUE, current_index |-> 0]

\* models.py:21-24
DEFAULT_DISPLAY == [orientation |-> "horizontal", fit_mode |-> "contain"]

\* models.py:12-31 (the wifi and google sections, which nothing here reads or
\* writes, are left out)
DEFAULT_SETTINGS == [slideshow |-> DEFAULT_SLIDESHOW, display |-> DEFAULT_DISPLAY]

VARIABLES
    photos,      \* files of the cache directory as get_cached_photos lists them (newest first)
    settings,    \* contents of settings.json as load_settings returns them
    scheduler,   \* the module global _scheduler: 0 is None, else an index into insts
    insts,       \* the BackgroundScheduler objects created: [started, job]; job 0 is "no photo_cycle job"
    schedLock,   \* holder of _scheduler_lock ("none" when free)
    dispLock,    \* holder of display_lock ("none" when free)
    pc,          \* where each thread is
    loc,         \* each thread's local variables
    hist,        \* the selections stored so far, oldest first
    tracing,     \* whether hist is kept
    setup,       \* app.py's _in_setup_mode and the do_setup threads button D has started
    defaults,    \* the module-level dict models.DEFAULT_SETTINGS as it is now
    file         \* settings.json on disk: missing, unreadable, or ok with the sections it has

vars ==
    <<photos, settings, scheduler, insts, schedLock, dispLock, pc, loc, hist, tracing,
      setup, defaults, file>>

\* ------------------------------------------------------------------ helpers

\* (mutant) a remainder that stops at the first position instead of wrapping round
PyModNoWrap(a, n) == IF a < 0 THEN 0 ELSE a % n

\* Python's a % n for n > 0 (the result is never negative)
PyMod(a, n) == ((a % n) + n) % n

\* photos.index(p)
IndexOf(s, p) == (CHOOSE i \in 1..Len(s) : s[i] = p) - 1

\* the list without its element at (0-based) position i
RemoveAt(s, i) == [j \in 1..(Len(s) - 1) |-> IF j <= i THEN s[j] ELSE s[j + 1]]

\* local variables of a thread that runs nothing
NoLocals ==
    [op       |-> "none",      \* the operation the thread runs
     stack    |-> <<>>,        \* where the functions being run return to (innermost first)
     order    |-> "none",      \* show_next_photo: order
     photos   |-> <<>>,        \* get_next_photo_path: photos
     idx      |-> 0,           \* next_index / prev_index
     photo    |-> 0,           \* next_photo / prev_photo (0: None)
     us       |-> DEFAULT_SETTINGS,  \* update_settings: settings
     alias    |-> {},          \* the sections of settings that are DEFAULT_SETTINGS' own dicts
     upd      |-> <<>>,        \* update_settings: updates["slideshow"]
     updd     |-> <<>>,        \* update_settings: updates["display"]
     req      |-> <<>>,        \* the keys a /settings request carries
     sched    |-> 0,           \* scheduler (result of get_scheduler)
     interval |-> 0,           \* start_slideshow: interval_minutes
     waited   |-> FALSE,       \* show_image found display_lock taken
     shown    |-> "none",      \* what show_image returned
     adv      |-> "none",      \* what show_next_photo / show_previous_photo returned
     ret      |-> "none",      \* what the operation returned
     status   |-> <<>>,        \* what get_slideshow_status returned
     gone     |-> {},          \* the photos that were not in the cache when the operation began
     pre      |-> DEFAULT_SETTINGS]  \* settings.json when the operation began

\* the thread's locals with some of them assigned
Assign(t, changes) ==
    [k \in DOMAIN loc[t] |-> IF k \in DOMAIN changes THEN changes[k] ELSE loc[t][k]]

\* a call: remember where to return to, continue at the function's first step
Call(t, entry, back, changes) ==
    /\ pc' = [pc EXCEPT ![t] = entry]
    /\ loc' = [loc EXCEPT ![t] = Assign(t, changes @@ [stack |-> <<back>> \o loc[t].stack])]

\* a return: continue in the caller
Return(t, changes) ==
    /\ pc' = [pc EXCEPT ![t] = Head(loc[t].stack)]
    /\ loc' = [loc EXCEPT ![t] = Assign(t, changes @@ [stack |-> Tail(loc[t].stack)])]

\* a step inside a function
Step(t, label, changes) ==
    /\ pc' = [pc EXCEPT ![t] = label]
    /\ loc' = [loc EXCEPT ![t] = Assign(t, changes)]

\* (mutant) an exception that takes the thread with it: the job's worker never
\* comes back
RaiseStuck(t) ==
    /\ pc' = [pc EXCEPT ![t] = "stuck"]
    /\ loc' = [loc EXCEPT ![t] = Assign(t, [ret |-> "raised", stack |-> <<>>])]

\* an exception: update_interval's except clause (lines 248-249) catches what
\* its start_slideshow raises; any other unwinds to the thread's top (Flask
\* answers 500, a button thread dies, APScheduler logs the job's error)
Raise(t) ==
    IF \E k \in 1..Len(loc[t].stack) : loc[t].stack[k] = "ui_return"
    THEN /\ pc' = [pc EXCEPT ![t] = "ui_return"]
         /\ loc' = [loc EXCEPT ![t] = Assign(t, [stack |-> <<"done">>])]
    ELSE /\ pc' = [pc EXCEPT ![t] = "done"]
         /\ loc' = [loc EXCEPT ![t] = Assign(t, [ret |-> "raised", stack |-> <<>>])]

\* ------------------------------------------------------------------ models.py

\* dict.update / {**a, **b}: b's keys win
Merge(base, updates) ==
    [k \in (DOMAIN base) \cup (DOMAIN updates) |->
        IF k \in DOMAIN updates THEN updates[k] ELSE base[k]]

\* the sections of settings.json that the model keeps
Sections == {"slideshow", "display"}

\* a settings.json as save_settings writes it
WholeFile == [kind |-> "ok", has |-> Sections]

\* load_settings lines 93-95: a missing file is written from DEFAULT_SETTINGS
\* (which is what `settings` holds while there is no readable file)
FileLoaded == IF file.kind = "missing" THEN WholeFile ELSE file

\* load_settings lines 95, 101-107, 110: DEFAULT_SETTINGS.copy() copies the outer
\* dict only; a section that is not replaced from the file (every section when
\* the file is missing or unreadable) is the very dict DEFAULT_SETTINGS holds
Aliased == IF file.kind = "ok" THEN Sections \ file.has ELSE Sections

\* a section of a loaded settings dict as it is now
Section(t, k) == IF k \in loc[t].alias THEN defaults[k] ELSE loc[t].us[k]

\* update_settings, line 122: settings = load_settings()
UsLoad(t) ==
    /\ pc[t] = "us_load"
    /\ Step(t, "us_save", [us |-> settings, alias |-> Aliased])
    /\ file' = FileLoaded
    /\ UNCHANGED <<photos, settings, scheduler, insts, schedLock, dispLock, hist, tracing, setup, defaults>>

\* (mutant) the updates merged into the default settings, not into the loaded ones
UsSaveOverDefaults(t) ==
    /\ pc[t] = "us_save"
    /\ settings' = [DEFAULT_SETTINGS EXCEPT !.slideshow = Merge(@, loc[t].upd),
                                            !.display = Merge(@, loc[t].updd)]
    /\ file' = WholeFile
    /\ Return(t, [us |-> DEFAULT_SETTINGS, alias |-> {}, upd |-> <<>>, updd |-> <<>>])
    /\ UNCHANGED <<photos, scheduler, insts, schedLock, dispLock, hist, tracing, setup, defaults>>

\* update_settings, lines 123-129: settings[key].update(value) on each section
\* (in place: on DEFAULT_SETTINGS' own dict where the section is one), then
\* the file written whole
UsSave(t) ==
    /\ pc[t] = "us_save"
    /\ LET slideshow == Merge(Section(t, "slideshow"), loc[t].upd)
           display == Merge(Section(t, "display"), loc[t].updd)
       IN  /\ settings' = [slideshow |-> slideshow, display |-> display]
           /\ defaults' =
                  [slideshow |-> IF "slideshow" \in loc[t].alias
                                 THEN slideshow ELSE defaults.slideshow,
                   display   |-> IF "display" \in loc[t].alias
                                 THEN display ELSE defaults.display]
    /\ file' = WholeFile
    /\ Return(t, [us |-> DEFAULT_SETTINGS, alias |-> {}, upd |-> <<>>, updd |-> <<>>])
    /\ UNCHANGED <<photos, scheduler, insts, schedLock, dispLock, hist, tracing, setup>>

\* ------------------------------------------------------------------ display.py

\* show_image, lines 155-162: no panel (headless), or process_image raises: False
SiEnter(t) ==
    /\ pc[t] = "si_enter"
    /\ \/ Return(t, [shown |-> "false"])
       \/ Step(t, "si_lock", [shown |-> "none"])
    /\ UNCHANGED <<photos, settings, scheduler, insts, schedLock, dispLock, hist, tracing, setup, defaults, file>>

\* (mutant) a busy guard that gives up: display_lock.acquire(blocking=False)
SiWaitDrop(t) ==
    /\ pc[t] = "si_lock"
    /\ dispLock # "none"
    /\ Return(t, [waited |-> TRUE, shown |-> "false"])
    /\ UNCHANGED <<photos, settings, scheduler, insts, schedLock, dispLock, hist, tracing, setup, defaults, file>>

\* show_image, line 164: with display_lock, when another thread holds it
SiWait(t) ==
    /\ pc[t] = "si_lock"
    /\ dispLock # "none"
    /\ ~loc[t].waited
    /\ Step(t, "si_lock", [waited |-> TRUE])
    /\ UNCHANGED <<photos, settings, scheduler, insts, schedLock, dispLock, hist, tracing, setup, defaults, file>>

\* show_image, line 164: display_lock.acquire() returns once the lock is free
SiLock(t) ==
    /\ pc[t] = "si_lock"
    /\ dispLock = "none"
    /\ dispLock' = t
    /\ Step(t, "si_show", <<>>)
    /\ UNCHANGED <<photos, settings, scheduler, insts, schedLock, hist, tracing, setup, defaults, file>>

\* (mutant) a refresh that returns with display_lock still held
SiShowNoRelease(t) ==
    /\ pc[t] = "si_show"
    /\ dispLock' = dispLock
    /\ \/ Return(t, [shown |-> "true"])
       \/ Return(t, [shown |-> "false"])
    /\ UNCHANGED <<photos, settings, scheduler, insts, schedLock, hist, tracing, setup, defaults, file>>

\* show_image, lines 165-172: the refresh, the lock's release, the result
\* (True, or False when the panel raises)
SiShow(t) ==
    /\ pc[t] = "si_show"
    /\ dispLock' = "none"
    /\ \/ Return(t, [shown |-> "true"])
       \/ Return(t, [shown |-> "false"])
    /\ UNCHANGED <<photos, settings, scheduler, insts, schedLock, hist, tracing, setup, defaults, file>>

\* ------------------------------------------------------------------ scheduler.py: the rotation

\* (mutant) show_previous_photo steps forward like show_next_photo
DirectionForward(op) == 1

\* the operations that go forward / backward
Direction(op) == IF op \in {"prev", "http_prev"} THEN -1 ELSE 1

\* (mutant) the sequential step without its wrap round the end of the list
NextIndexesNoWrap(order, list, current_index, dir) ==
    IF order = "random"
    THEN IF Len(list) = 1
         THEN {}
         ELSE {IndexOf(list, list[i + 1]) : i \in (0..(Len(list) - 1)) \ {current_index}}
    ELSE {IF current_index + dir >= Len(list) THEN Len(list) - 1
          ELSE IF current_index + dir < 0 THEN 0 ELSE current_index + dir}

\* (mutant) the random choice among all the photos, the current one too
NextIndexesAnyPhoto(order, list, current_index, dir) ==
    IF order = "random"
    THEN IF Len(list) = 1
         THEN {}
         ELSE {IndexOf(list, list[i + 1]) : i \in 0..(Len(list) - 1)}
    ELSE {PyMod(current_index + dir, Len(list))}

\* (mutant) the sequential step wraps round after the second photo
NextIndexesFirstTwo(order, list, current_index, dir) ==
    IF order = "random"
    THEN IF Len(list) = 1
         THEN {}
         ELSE {IndexOf(list, list[i + 1]) : i \in (0..(Len(list) - 1)) \ {current_index}}
    ELSE {PyMod(current_index + dir, IF Len(list) > 2 THEN 2 ELSE Len(list))}

\* get_next_photo_path lines 51-62, get_previous_photo_path lines 90-101:
\* the positions next_index may get ({} when the name is never bound)
NextIndexes(order, list, current_index, dir) ==
    IF order = "random"
    THEN IF Len(list) = 1
         THEN {}
         ELSE {IndexOf(list, list[i + 1]) : i \in (0..(Len(list) - 1)) \ {current_index}}
    ELSE {PyMod(current_index + dir, Len(list))}

\* show_next_photo lines 113-119, show_previous_photo lines 133-139
SnLoad(t) ==
    /\ pc[t] = "sn_load"
    /\ Call(t, "gp_photos", "sn_got", [order |-> settings.slideshow.order])
    /\ file' = FileLoaded
    /\ UNCHANGED <<photos, settings, scheduler, insts, schedLock, dispLock, hist, tracing, setup, defaults>>

\* (mutant) the listing taken from a list made when every photo was there
GpPhotosCached(t) ==
    /\ pc[t] = "gp_photos"
    /\ Step(t, "gp_load", [photos |-> [i \in 1..MaxPhotos |-> MaxPhotos + 1 - i]])
    /\ UNCHANGED <<photos, settings, scheduler, insts, schedLock, dispLock, hist, tracing, setup, defaults, file>>

\* get_next_photo_path lines 43-46: the listing; None when it is empty
GpPhotos(t) ==
    /\ pc[t] = "gp_photos"
    /\ IF photos = <<>>
       THEN Return(t, [photo |-> 0])
       ELSE Step(t, "gp_load", [photos |-> photos])
    /\ UNCHANGED <<photos, settings, scheduler, insts, schedLock, dispLock, hist, tracing, setup, defaults, file>>

\* (mutant) the choice is made and the position it was made from is stored again
GpLoadKeepsIndex(t) ==
    /\ pc[t] = "gp_load"
    /\ LET list == loc[t].photos
           cands == NextIndexes(loc[t].order, list, settings.slideshow.current_index,
                                Direction(loc[t].op))
       IN  IF cands = {}
           THEN Raise(t)
           ELSE \E i \in cands :
                    Call(t, "us_load", "gp_return",
                         [idx |-> i, photo |-> list[i + 1],
                          upd |-> settings.slideshow,
                          photos |-> <<>>])
    /\ file' = FileLoaded
    /\ UNCHANGED <<photos, settings, scheduler, insts, schedLock, dispLock, hist, tracing, setup, defaults>>

\* get_next_photo_path lines 48-66: the stored position, the choice, the
\* argument of update_settings
GpLoad(t) ==
    /\ pc[t] = "gp_load"
    /\ LET list == loc[t].photos
           cands == NextIndexes(loc[t].order, list, settings.slideshow.current_index,
                                Direction(loc[t].op))
       IN  IF cands = {}
           THEN Raise(t)
           ELSE \E i \in cands :
                    Call(t, "us_load", "gp_return",
                         [idx |-> i, photo |-> list[i + 1],
                          upd |-> Merge(settings.slideshow, [current_index |-> i]),
                          photos |-> <<>>])
    /\ file' = FileLoaded
    /\ UNCHANGED <<photos, settings, scheduler, insts, schedLock, dispLock, hist, tracing, setup, defaults>>

\* get_next_photo_path line 69: return next_photo
GpReturn(t) ==
    /\ pc[t] = "gp_return"
    /\ Return(t, <<>>)
    /\ hist' = IF tracing
               THEN Append(hist, [op    |-> loc[t].op,
                                  from  |-> loc[t].pre.slideshow.current_index,
                                  to    |-> loc[t].idx,
                                  photo |-> loc[t].photo])
               ELSE hist
    /\ UNCHANGED <<photos, settings, scheduler, insts, schedLock, dispLock, tracing, setup, defaults, file>>

\* (mutant) show_next_photo returns True whether or not there was a photo
SnGotTrue(t) ==
    /\ pc[t] = "sn_got"
    /\ IF loc[t].photo = 0
       THEN Return(t, [adv |-> "true"])
       ELSE Call(t, "si_enter", "sn_shown", <<>>)
    /\ UNCHANGED <<photos, settings, scheduler, insts, schedLock, dispLock, hist, tracing, setup, defaults, file>>

\* show_next_photo lines 123-128: show it and return True, or return False
SnGot(t) ==
    /\ pc[t] = "sn_got"
    /\ IF loc[t].photo = 0
       THEN Return(t, [adv |-> "false"])
       ELSE Call(t, "si_enter", "sn_shown", <<>>)
    /\ UNCHANGED <<photos, settings, scheduler, insts, schedLock, dispLock, hist, tracing, setup, defaults, file>>

\* (mutant) show_next_photo returns what show_image returned
SnShownResult(t) ==
    /\ pc[t] = "sn_shown"
    /\ Return(t, [adv |-> loc[t].shown])
    /\ UNCHANGED <<photos, settings, scheduler, insts, schedLock, dispLock, hist, tracing, setup, defaults, file>>

\* show_next_photo line 125 / show_previous_photo line 145: return True, whatever
\* show_image returned
SnShown(t) ==
    /\ pc[t] = "sn_shown"
    /\ Return(t, [adv |-> "true"])
    /\ UNCHANGED <<photos, settings, scheduler, insts, schedLock, dispLock, hist, tracing, setup, defaults, file>>

\* show_current_photo lines 153-156: the listing; False when it is empty
ScPhotos(t) ==
    /\ pc[t] = "sc_photos"
    /\ IF photos = <<>>
       THEN Return(t, <<>>)
       ELSE Step(t, "sc_load", [photos |-> photos])
    /\ UNCHANGED <<photos, settings, scheduler, insts, schedLock, dispLock, hist, tracing, setup, defaults, file>>

\* (mutant) a position past the end of the list is taken back to the last photo
ScLoadClampLast(t) ==
    /\ pc[t] = "sc_load"
    /\ LET list == loc[t].photos
           stored == settings.slideshow.current_index
           current_index == IF stored >= Len(list) THEN Len(list) - 1 ELSE stored
       IN  Call(t, "si_enter", "sc_return",
                [idx |-> current_index, photo |-> list[current_index + 1], photos |-> <<>>])
    /\ file' = FileLoaded
    /\ UNCHANGED <<photos, settings, scheduler, insts, schedLock, dispLock, hist, tracing, setup, defaults>>

\* show_current_photo lines 158-170: the stored position (0 when it is past the
\* end of the list), the photo there, the render
ScLoad(t) ==
    /\ pc[t] = "sc_load"
    /\ LET list == loc[t].photos
           stored == settings.slideshow.current_index
           current_index == IF stored >= Len(list) THEN 0 ELSE stored
       IN  Call(t, "si_enter", "sc_return",
                [idx |-> current_index, photo |-> list[current_index + 1], photos |-> <<>>])
    /\ file' = FileLoaded
    /\ UNCHANGED <<photos, settings, scheduler, insts, schedLock, dispLock, hist, tracing, setup, defaults>>

\* show_current_photo line 171
ScReturn(t) ==
    /\ pc[t] = "sc_return"
    /\ Return(t, <<>>)
    /\ UNCHANGED <<photos, settings, scheduler, insts, schedLock, dispLock, hist, tracing, setup, defaults, file>>

\* ------------------------------------------------------------------ scheduler.py: the timer

\* the scheduler object s with its photo_cycle job set to j (0: removed)
WithJob(s, j) == [insts EXCEPT ![s].job = j]

\* get_scheduler line 26: if _scheduler is None
GsCheck(t) ==
    /\ pc[t] = "gs_check"
    /\ Step(t, IF scheduler = 0 THEN "gs_create" ELSE "gs_return", <<>>)
    /\ UNCHANGED <<photos, settings, scheduler, insts, schedLock, dispLock, hist, tracing, setup, defaults, file>>

\* get_scheduler line 27: _scheduler = BackgroundScheduler()
GsCreate(t) ==
    /\ pc[t] = "gs_create"
    /\ insts' = Append(insts, [started |-> FALSE, job |-> 0])
    /\ scheduler' = Len(insts) + 1
    /\ Step(t, "gs_start", <<>>)
    /\ UNCHANGED <<photos, settings, schedLock, dispLock, hist, tracing, setup, defaults, file>>

\* get_scheduler line 28: _scheduler.start(), which raises
\* SchedulerAlreadyRunningError on a scheduler that runs already
GsStart(t) ==
    /\ pc[t] = "gs_start"
    /\ IF insts[scheduler].started
       THEN Raise(t) /\ insts' = insts
       ELSE Step(t, "gs_return", <<>>) /\ insts' = [insts EXCEPT ![scheduler].started = TRUE]
    /\ UNCHANGED <<photos, settings, scheduler, schedLock, dispLock, hist, tracing, setup, defaults, file>>

\* get_scheduler line 30: return _scheduler
GsReturn(t) ==
    /\ pc[t] = "gs_return"
    /\ Return(t, [sched |-> scheduler])
    /\ UNCHANGED <<photos, settings, scheduler, insts, schedLock, dispLock, hist, tracing, setup, defaults, file>>

\* (mutant) the configured interval taken as it is
ValidIntervalAsIs(interval_minutes) == interval_minutes

\* start_slideshow line 192-193: the interval the job gets
ValidInterval(interval_minutes) ==
    IF interval_minutes \in INTERVAL_OPTIONS THEN interval_minutes ELSE 60

\* (mutant) start_slideshow gives up when the cache holds no photo
SsLoadNeedsPhotos(t) ==
    /\ pc[t] = "ss_load"
    /\ IF ~settings.slideshow.enabled \/ photos = <<>>
       THEN Return(t, [ret |-> "false"])
       ELSE Call(t, "gs_check", "ss_remove",
                 [interval |-> ValidInterval(settings.slideshow.interval_minutes)])
    /\ file' = FileLoaded
    /\ UNCHANGED <<photos, settings, scheduler, insts, schedLock, dispLock, hist, tracing, setup, defaults>>

\* start_slideshow lines 182-195
SsLoad(t) ==
    /\ pc[t] = "ss_load"
    /\ IF ~settings.slideshow.enabled
       THEN Return(t, [ret |-> "false"])
       ELSE Call(t, "gs_check", "ss_remove",
                 [interval |-> ValidInterval(settings.slideshow.interval_minutes)])
    /\ file' = FileLoaded
    /\ UNCHANGED <<photos, settings, scheduler, insts, schedLock, dispLock, hist, tracing, setup, defaults>>

\* start_slideshow lines 197-202: take _scheduler_lock, remove the job if there is one
SsRemove(t) ==
    /\ pc[t] = "ss_remove"
    /\ schedLock = "none"
    /\ schedLock' = t
    /\ insts' = WithJob(loc[t].sched, 0)
    /\ Step(t, "ss_add", <<>>)
    /\ UNCHANGED <<photos, settings, scheduler, dispLock, hist, tracing, setup, defaults, file>>

\* (mutant) start_slideshow installs the job and leaves the first photo to the timer
SsAddOnly(t) ==
    /\ pc[t] = "ss_add"
    /\ insts' = WithJob(loc[t].sched, loc[t].interval)
    /\ schedLock' = "none"
    /\ Step(t, "ss_return", <<>>)
    /\ UNCHANGED <<photos, settings, scheduler, dispLock, hist, tracing, setup, defaults, file>>

\* (mutant) show_next_photo called inside the with _scheduler_lock block
SsAddLocked(t) ==
    /\ pc[t] = "ss_add"
    /\ insts' = WithJob(loc[t].sched, loc[t].interval)
    /\ Call(t, "sn_load", "ss_return", <<>>)
    /\ UNCHANGED <<photos, settings, scheduler, schedLock, dispLock, hist, tracing, setup, defaults, file>>

\* start_slideshow lines 205-215: add the job, release the lock, show the next photo
SsAdd(t) ==
    /\ pc[t] = "ss_add"
    /\ insts' = WithJob(loc[t].sched, loc[t].interval)
    /\ schedLock' = "none"
    /\ Call(t, "sn_load", "ss_return", <<>>)
    /\ UNCHANGED <<photos, settings, scheduler, dispLock, hist, tracing, setup, defaults, file>>

\* start_slideshow line 217
SsReturn(t) ==
    /\ pc[t] = "ss_return"
    /\ Return(t, [ret |-> "true"])
    /\ UNCHANGED <<photos, settings, scheduler, insts, schedLock, dispLock, hist, tracing, setup, defaults, file>>

\* (mutant) stop_slideshow returns True with or without a job
StRemoveTrue(t) ==
    /\ pc[t] = "st_remove"
    /\ schedLock = "none"
    /\ insts' = WithJob(loc[t].sched, 0)
    /\ Return(t, [ret |-> "true"])
    /\ UNCHANGED <<photos, settings, scheduler, schedLock, dispLock, hist, tracing, setup, defaults, file>>

\* stop_slideshow lines 224-230: under the lock, remove the job; True when there was one
StRemove(t) ==
    /\ pc[t] = "st_remove"
    /\ schedLock = "none"
    /\ insts' = WithJob(loc[t].sched, 0)
    /\ Return(t, [ret |-> IF insts[loc[t].sched].job # 0 THEN "true" ELSE "false"])
    /\ UNCHANGED <<photos, settings, scheduler, schedLock, dispLock, hist, tracing, setup, defaults, file>>

\* update_interval lines 235-236: an interval outside INTERVAL_OPTIONS is refused
UiCheck(t) ==
    /\ pc[t] = "ui_check"
    /\ IF loc[t].req.interval_minutes \notin INTERVAL_OPTIONS
       THEN Return(t, [ret |-> "false"])
       ELSE Step(t, "ui_load", <<>>)
    /\ UNCHANGED <<photos, settings, scheduler, insts, schedLock, dispLock, hist, tracing, setup, defaults, file>>

\* update_interval line 238: settings = load_settings()
UiLoad(t) ==
    /\ pc[t] = "ui_load"
    /\ Step(t, "ui_save", [us |-> settings, alias |-> Aliased])
    /\ file' = FileLoaded
    /\ UNCHANGED <<photos, settings, scheduler, insts, schedLock, dispLock, hist, tracing, setup, defaults>>

\* update_interval lines 239-243: store the interval, write the file, get the scheduler
UiSave(t) ==
    /\ pc[t] = "ui_save"
    /\ LET slideshow == [Section(t, "slideshow") EXCEPT
                             !.interval_minutes = loc[t].req.interval_minutes]
       IN  /\ settings' = [slideshow |-> slideshow, display |-> Section(t, "display")]
           /\ defaults' = IF "slideshow" \in loc[t].alias
                          THEN [defaults EXCEPT !.slideshow = slideshow]
                          ELSE defaults
    /\ file' = WholeFile
    /\ Call(t, "gs_check", "ui_job", [us |-> DEFAULT_SETTINGS, alias |-> {}])
    /\ UNCHANGED <<photos, scheduler, insts, schedLock, dispLock, hist, tracing, setup>>

\* update_interval lines 244-247: restart the slideshow when the job is installed
UiJob(t) ==
    /\ pc[t] = "ui_job"
    /\ IF insts[loc[t].sched].job # 0
       THEN Call(t, "ss_load", "ui_return", <<>>)
       ELSE Step(t, "ui_return", <<>>)
    /\ UNCHANGED <<photos, settings, scheduler, insts, schedLock, dispLock, hist, tracing, setup, defaults, file>>

\* update_interval line 251 (whatever start_slideshow returned or raised)
UiReturn(t) ==
    /\ pc[t] = "ui_return"
    /\ Return(t, [ret |-> "true"])
    /\ UNCHANGED <<photos, settings, scheduler, insts, schedLock, dispLock, hist, tracing, setup, defaults, file>>

\* ------------------------------------------------------------------ app.py

\* (mutant) the routes leave the enabled flag to the engine
HsUpdateNothing(t) ==
    /\ pc[t] = "hs_update"
    /\ Step(t, "done", <<>>)
    /\ UNCHANGED <<photos, settings, scheduler, insts, schedLock, dispLock, hist, tracing, setup, defaults, file>>

\* /slideshow/start line 461, /slideshow/stop line 472: persist the enabled flag
HsUpdate(t) ==
    /\ pc[t] = "hs_update"
    /\ Call(t, "us_load", "done", [upd |-> [enabled |-> loc[t].op = "http_start"]])
    /\ UNCHANGED <<photos, settings, scheduler, insts, schedLock, dispLock, hist, tracing, setup, defaults, file>>

\* app.py line 50 (_in_setup_mode = False) and no do_setup thread: spawned counts
\* the threads started that have not run line 127 yet, starting those between
\* line 127 and the end of wifi_manager.start_ap_mode(), ap the calls of
\* start_ap_mode that do_setup has made
NoSetup == [flag |-> FALSE, spawned |-> 0, starting |-> 0, ap |-> 0]

\* button_d_handler lines 124-132: a press of button D; when _in_setup_mode is
\* not set it starts a thread that runs do_setup (a press that finds it set
\* does nothing)
ButtonD ==
    /\ ~setup.flag
    /\ setup.spawned + setup.starting + setup.ap < MaxPresses
    /\ setup' = [setup EXCEPT !.spawned = @ + 1]
    /\ UNCHANGED <<photos, settings, scheduler, insts, schedLock, dispLock, pc, loc, hist, tracing, defaults, file>>

\* do_setup line 127: _in_setup_mode = True
DoSetupFlag ==
    /\ setup.spawned > 0
    /\ setup' = [setup EXCEPT !.spawned = @ - 1, !.starting = @ + 1, !.flag = TRUE]
    /\ UNCHANGED <<photos, settings, scheduler, insts, schedLock, dispLock, pc, loc, hist, tracing, defaults, file>>

\* do_setup lines 128-130: wifi_manager.start_ap_mode(), the info screen
DoSetupAp ==
    /\ setup.starting > 0
    /\ setup' = [setup EXCEPT !.starting = @ - 1, !.ap = @ + 1]
    /\ UNCHANGED <<photos, settings, scheduler, insts, schedLock, dispLock, pc, loc, hist, tracing, defaults, file>>

\* ------------------------------------------------------------------ the callers

\* a thread takes up an operation: its first step and what it returns through
Begin(t, op, entry, stack) ==
    /\ pc[t] = "idle"
    /\ Len(hist) < MaxHist
    /\ pc' = [pc EXCEPT ![t] = entry]
    /\ loc' = [loc EXCEPT ![t] =
                  [NoLocals EXCEPT !.op = op, !.stack = stack, !.pre = settings,
                                   !.gone = AllIds \ {photos[i] : i \in 1..Len(photos)}]]
    /\ UNCHANGED <<photos, settings, scheduler, insts, schedLock, dispLock, hist, tracing, setup, defaults, file>>

\* scheduler.show_next_photo() as button_c_handler calls it (app.py line 115)
BeginNext(t) == Begin(t, "next", "sn_load", <<"done">>)

\* scheduler.show_previous_photo() as button_b_handler calls it (app.py line 107)
BeginPrev(t) == Begin(t, "prev", "sn_load", <<"done">>)

\* app.py next_photo lines 377-379: POST /next with a JSON body
BeginHttpNext(t) == Begin(t, "http_next", "sn_load", <<"hn_respond">>)

\* app.py prev_photo lines 386-388: POST /prev with a JSON body
BeginHttpPrev(t) == Begin(t, "http_prev", "sn_load", <<"hn_respond">>)

\* app.py lines 380-381 / 389-390: return jsonify({'success': True}); ret is the
\* success value of the response
HnRespond(t) ==
    /\ pc[t] = "hn_respond"
    /\ Step(t, "done", [ret |-> "true"])
    /\ UNCHANGED <<photos, settings, scheduler, insts, schedLock, dispLock, hist, tracing, setup, defaults, file>>

\* a scheduler whose photo_cycle job can fire
Live(s) == insts[s].started /\ insts[s].job # 0

\* _cycle_photo_job: the interval of an installed job elapses (APScheduler runs
\* one instance of a job at a time)
BeginCycle(t) ==
    /\ \E s \in 1..Len(insts) : Live(s)
    /\ \A u \in Threads : loc[u].op # "cycle"
    /\ Begin(t, "cycle", "sn_load", <<"done">>)

\* scheduler.start_slideshow (app.py main line 548)
BeginStart(t) == Begin(t, "start", "ss_load", <<"done">>)

\* scheduler.stop_slideshow
BeginStop(t) == Begin(t, "stop", "gs_check", <<"st_remove", "done">>)

\* app.py start_slideshow lines 458-465
BeginHttpStart(t) == Begin(t, "http_start", "ss_load", <<"hs_update">>)

\* app.py stop_slideshow lines 469-476
BeginHttpStop(t) == Begin(t, "http_stop", "gs_check", <<"st_remove", "hs_update">>)

\* the operation is over: the thread is free again
Finish(t) ==
    /\ pc[t] = "done"
    /\ pc' = [pc EXCEPT ![t] = "idle"]
    /\ loc' = [loc EXCEPT ![t] = NoLocals]
    /\ UNCHANGED <<photos, settings, scheduler, insts, schedLock, dispLock, hist, tracing, setup, defaults, file>>

\* is_slideshow_running lines 256-259 as app.update_settings uses it (lines 361-363):
\* restart the slideshow when a photo_cycle job is installed
IrGet(t) ==
    /\ pc[t] = "ir_get"
    /\ IF insts[loc[t].sched].job # 0
       THEN Step(t, "ss_load", <<>>)
       ELSE Return(t, <<>>)
    /\ UNCHANGED <<photos, settings, scheduler, insts, schedLock, dispLock, hist, tracing, setup, defaults, file>>

\* the keys of a /settings request that belong to the two sections
SlideshowKeys == {"order", "interval_minutes", "enabled"}

DisplayKeys == {"orientation", "fit_mode"}

\* the part of a request that goes into one section's updates
Restrict(r, keys) == [k \in (DOMAIN r) \cap keys |-> r[k]]

\* what a client may post to /settings (lines 338-355)
SettingsInputs ==
    {[order |-> o] : o \in Orders}
        \cup {[interval_minutes |-> i] : i \in IntervalInputs}
        \cup {[enabled |-> b] : b \in BOOLEAN}
        \cup {[orientation |-> o] : o \in {"horizontal", "vertical"}}
        \cup {[order |-> "sequential", fit_mode |-> "cover"]}

\* app.py update_settings lines 333-358
BeginSettings(t, inputs) ==
    /\ pc[t] = "idle"
    /\ Len(hist) < MaxHist
    /\ \E req \in inputs :
           /\ pc' = [pc EXCEPT ![t] = "us_load"]
           /\ loc' = [loc EXCEPT ![t] =
                         [NoLocals EXCEPT !.op = "settings", !.stack = <<"as_check", "done">>,
                                          !.pre = settings, !.req = req,
                                          !.upd = Restrict(req, SlideshowKeys),
                                          !.updd = Restrict(req, DisplayKeys)]]
    /\ UNCHANGED <<photos, settings, scheduler, insts, schedLock, dispLock, hist, tracing, setup, defaults, file>>

\* app.py update_settings lines 361-363: the restart after a new interval
AsCheck(t) ==
    /\ pc[t] = "as_check"
    /\ IF "interval_minutes" \in DOMAIN loc[t].req
       THEN Step(t, "gs_check", [stack |-> <<"ir_get", "as_display", "done">>])
       ELSE Step(t, "as_display", <<>>)
    /\ UNCHANGED <<photos, settings, scheduler, insts, schedLock, dispLock, hist, tracing, setup, defaults, file>>

\* app.py update_settings lines 366-367: the refresh after new display settings
AsDisplay(t) ==
    /\ pc[t] = "as_display"
    /\ IF (DOMAIN loc[t].req) \cap DisplayKeys # {}
       THEN Step(t, "sc_photos", <<>>)
       ELSE Return(t, <<>>)
    /\ UNCHANGED <<photos, settings, scheduler, insts, schedLock, dispLock, hist, tracing, setup, defaults, file>>

\* scheduler.update_interval(interval_minutes)
BeginInterval(t) ==
    /\ pc[t] = "idle"
    /\ Len(hist) < MaxHist
    /\ \E i \in IntervalInputs :
           /\ pc' = [pc EXCEPT ![t] = "ui_check"]
           /\ loc' = [loc EXCEPT ![t] =
                         [NoLocals EXCEPT !.op = "interval", !.stack = <<"done">>,
                                          !.pre = settings, !.req = [interval_minutes |-> i]]]
    /\ UNCHANGED <<photos, settings, scheduler, insts, schedLock, dispLock, hist, tracing, setup, defaults, file>>

\* get_slideshow_status lines 266-268
GstLoad(t) ==
    /\ pc[t] = "gst_load"
    /\ Call(t, "gs_check", "gst_job",
            [status |-> [enabled          |-> settings.slideshow.enabled,
                         interval_minutes |-> settings.slideshow.interval_minutes,
                         order            |-> settings.slideshow.order,
                         current_index    |-> settings.slideshow.current_index,
                         photo_count      |-> Len(photos)]])
    /\ file' = FileLoaded
    /\ UNCHANGED <<photos, settings, scheduler, insts, schedLock, dispLock, hist, tracing, setup, defaults>>

\* (mutant) the status reports the enabled flag as running
GstJobEnabled(t) ==
    /\ pc[t] = "gst_job"
    /\ LET job == insts[loc[t].sched].job
           run == insts[loc[t].sched].started
       IN  Return(t, [status |-> Merge(loc[t].status,
                                       [running  |-> loc[t].status.enabled,
                                        next_run |-> IF job # 0 /\ run THEN "time" ELSE "null"])])
    /\ UNCHANGED <<photos, settings, scheduler, insts, schedLock, dispLock, hist, tracing, setup, defaults, file>>

\* get_slideshow_status lines 271-290
GstJob(t) ==
    /\ pc[t] = "gst_job"
    /\ LET job == insts[loc[t].sched].job
           run == insts[loc[t].sched].started
       IN  Return(t, [status |-> Merge(loc[t].status,
                                       [running  |-> job # 0,
                                        next_run |-> IF job # 0 /\ run THEN "time" ELSE "null"])])
    /\ UNCHANGED <<photos, settings, scheduler, insts, schedLock, dispLock, hist, tracing, setup, defaults, file>>

\* app.py index line 151 / api_status line 483
BeginStatus(t) == Begin(t, "status", "gst_load", <<"done">>)

\* ------------------------------------------------------------------ the photo source

\* google_photos.get_cached_photos line 397: n files, newest first
Library(n) == [i \in 1..n |-> n + 1 - i]

\* google_photos.download_photo lines 320-350: the file is named after the media
\* item, so a photo that was deleted may be downloaded again; it is written now,
\* which makes it the newest of the listing (a call that began without it no
\* longer counts it among the deleted)
AddPhoto ==
    /\ \E p \in AllIds \ {photos[i] : i \in 1..Len(photos)} :
           /\ photos' = <<p>> \o photos
           /\ loc' = [t \in Threads |-> [loc[t] EXCEPT !.gone = @ \ {p}]]
    /\ UNCHANGED <<settings, scheduler, insts, schedLock, dispLock, pc, hist, tracing, setup, defaults, file>>

\* a file of the cache directory is deleted
DeletePhoto ==
    /\ \E i \in 0..(Len(photos) - 1) : photos' = RemoveAt(photos, i)
    /\ UNCHANGED <<settings, scheduler, insts, schedLock, dispLock, pc, loc, hist, tracing, setup, defaults, file>>

\* ------------------------------------------------------------------ the system

\* the steps of show_next_photo / show_previous_photo and what they call
RotationStep(t) ==
    \/ SnLoad(t) \/ GpPhotos(t) \/ GpLoad(t) \/ GpReturn(t) \/ SnGot(t) \/ SnShown(t)
    \/ UsLoad(t) \/ UsSave(t)
    \/ SiEnter(t) \/ SiLock(t) \/ SiShow(t)
    \/ Finish(t)

\* the steps of show_current_photo
CurrentStep(t) == ScPhotos(t) \/ ScLoad(t) \/ ScReturn(t)

\* the steps of the timer's functions
TimerStep(t) ==
    \/ GsCheck(t) \/ GsCreate(t) \/ GsStart(t) \/ GsReturn(t)
    \/ SsLoad(t) \/ SsRemove(t) \/ SsAdd(t) \/ SsReturn(t) \/ StRemove(t)
    \/ HsUpdate(t) \/ AsCheck(t) \/ AsDisplay(t) \/ IrGet(t)
    \/ UiCheck(t) \/ UiLoad(t) \/ UiSave(t) \/ UiJob(t) \/ UiReturn(t)

\* the process before main() has done anything, with n photos in the cache
\* and the given order and position in settings.json
Start(n, order, index, traced) ==
    /\ photos = Library(n)
    /\ settings = [DEFAULT_SETTINGS EXCEPT !.slideshow.order = order,
                                          !.slideshow.current_index = index]
    /\ scheduler = 0
    /\ insts = <<>>
    /\ schedLock = "none"
    /\ dispLock = "none"
    /\ pc = [t \in Threads |-> "idle"]
    /\ loc = [t \in Threads |-> NoLocals]
    /\ hist = <<>>
    /\ tracing = traced
    /\ setup = NoSetup
    /\ defaults = DEFAULT_SETTINGS
    /\ file = WholeFile

\* --- Spec: one caller at a time, every operation, a library that does not change

Main == "t1"

Init == \E n \in 0..MaxPhotos : Start(n, "random", 0, FALSE)

Next ==
    \/ BeginNext(Main) \/ BeginPrev(Main) \/ BeginCycle(Main)
    \/ BeginHttpNext(Main) \/ BeginHttpPrev(Main) \/ HnRespond(Main)
    \/ BeginStart(Main) \/ BeginStop(Main) \/ BeginHttpStart(Main) \/ BeginHttpStop(Main)
    \/ BeginSettings(Main, SettingsInputs) \/ BeginInterval(Main) \/ BeginStatus(Main)
    \/ GstLoad(Main) \/ GstJob(Main)
    \/ RotationStep(Main)
    \/ CurrentStep(Main)
    \/ TimerStep(Main)

Spec == Init /\ [][Next]_vars

\* --- SpecCycle: one caller that only goes forward and backward, its selections traced

\* (the stored position may be one an earlier, larger library left behind)
InitCycle ==
    \E n \in 0..MaxPhotos, order \in Orders, index \in 0..(MaxPhotos - 1) :
        Start(n, order, index, TRUE)

NextCycle == BeginNext(Main) \/ BeginPrev(Main) \/ RotationStep(Main)

SpecCycle == InitCycle /\ [][NextCycle]_vars

\* --- SpecRotation: the callers go forward and backward at the same time, the
\* slideshow running (main() has started it)

Running(n, order) ==
    /\ photos = Library(n)
    /\ settings = [DEFAULT_SETTINGS EXCEPT !.slideshow.order = order]
    /\ scheduler = 1
    /\ insts = <<[started |-> TRUE, job |-> 60]>>
    /\ schedLock = "none"
    /\ dispLock = "none"
    /\ pc = [t \in Threads |-> "idle"]
    /\ loc = [t \in Threads |-> NoLocals]
    /\ hist = <<>>
    /\ tracing = FALSE
    /\ setup = NoSetup
    /\ defaults = DEFAULT_SETTINGS
    /\ file = WholeFile

InitRotation == \E n \in 1..MaxPhotos, order \in Orders : Running(n, order)

NextRotation ==
    \E t \in Threads :
        BeginNext(t) \/ BeginPrev(t) \/ BeginCycle(t) \/ RotationStep(t) \/ SiWait(t)

SpecRotation == InitRotation /\ [][NextRotation]_vars

\* --- SpecTimer: the callers start, stop and reconfigure the slideshow at the same
\* time, on a cache without photos (the first photo start_slideshow shows is
\* SpecRotation's matter)

InitTimer == Start(0, "sequential", 0, FALSE)

NextTimer ==
    \E t \in Threads :
        \/ BeginStart(t) \/ BeginStop(t)
        \/ BeginSettings(t, {[interval_minutes |-> i] : i \in IntervalInputs})
        \/ GsCheck(t) \/ GsCreate(t) \/ GsStart(t) \/ GsReturn(t)
        \/ SsLoad(t) \/ SsRemove(t) \/ SsAdd(t) \/ SsReturn(t) \/ StRemove(t)
        \/ AsCheck(t) \/ AsDisplay(t) \/ IrGet(t)
        \/ UsLoad(t) \/ UsSave(t)
        \/ SnLoad(t) \/ GpPhotos(t) \/ SnGot(t)
        \/ Finish(t)

SpecTimer == InitTimer /\ [][NextTimer]_vars

\* --- SpecLibrary: one caller goes forward while photos are deleted from the
\* cache and downloaded (again); the cache is full at first, so a photo that is
\* not there was deleted

InitLibrary ==
    \E order \in Orders, index \in 0..(MaxPhotos - 1) : Start(MaxPhotos, order, index, FALSE)

NextLibrary == BeginNext(Main) \/ RotationStep(Main) \/ AddPhoto \/ DeletePhoto

SpecLibrary == InitLibrary /\ [][NextLibrary]_vars

\* --- SpecStop: the callers start and stop the slideshow at the same time while
\* the installed jobs fire, on a cache without photos

NextStop ==
    \E t \in Threads :
        \/ BeginStart(t) \/ BeginStop(t) \/ BeginCycle(t)
        \/ GsCheck(t) \/ GsCreate(t) \/ GsStart(t) \/ GsReturn(t)
        \/ SsLoad(t) \/ SsRemove(t) \/ SsAdd(t) \/ SsReturn(t) \/ StRemove(t)
        \/ SnLoad(t) \/ GpPhotos(t) \/ SnGot(t)
        \/ Finish(t)

SpecStop == InitTimer /\ [][NextStop]_vars

\* --- SpecFrame: one caller goes forward while another posts
\* settings (order, enabled) and stops the slideshow over HTTP

Other == "t2"

FrameInputs == {[order |-> o] : o \in Orders} \cup {[enabled |-> b] : b \in BOOLEAN}

InitFrame == \E order \in Orders : Start(MaxPhotos - 1, order, 0, FALSE)

NextFrame ==
    \/ BeginNext(Main) \/ RotationStep(Main)
    \/ BeginSettings(Other, FrameInputs) \/ BeginHttpStop(Other)
    \/ UsLoad(Other) \/ UsSave(Other) \/ AsCheck(Other) \/ AsDisplay(Other)
    \/ GsCheck(Other) \/ GsCreate(Other) \/ GsStart(Other) \/ GsReturn(Other)
    \/ StRemove(Other) \/ HsUpdate(Other)
    \/ Finish(Other)

SpecFrame == InitFrame /\ [][NextFrame]_vars

\* --- SpecGrow: one caller goes forward and backward in sequential order while
\* photos are downloaded; its selections are traced (two photos or more at any time)

InitGrow == \E index \in 0..(MaxPhotos - 2) : Start(MaxPhotos - 1, "sequential", index, TRUE)

NextGrow == BeginNext(Main) \/ BeginPrev(Main) \/ RotationStep(Main) \/ AddPhoto

SpecGrow == InitGrow /\ [][NextGrow]_vars

\* --- SpecCurrent: one caller goes forward and backward and posts display
\* settings (which re-display the current photo) while photos come and go; the
\* stored position may be past the end of the listing

DisplayInputs ==
    {[orientation |-> o] : o \in {"horizontal", "vertical"}}
        \cup {[fit_mode |-> f] : f \in {"contain", "cover"}}

InitCurrent ==
    \E n \in 0..MaxPhotos, order \in Orders, index \in 0..MaxPhotos :
        Start(n, order, index, FALSE)

NextCurrent ==
    \/ BeginNext(Main) \/ BeginPrev(Main) \/ BeginSettings(Main, DisplayInputs)
    \/ RotationStep(Main)
    \/ AsCheck(Main) \/ AsDisplay(Main)
    \/ CurrentStep(Main)
    \/ AddPhoto \/ DeletePhoto

SpecCurrent == InitCurrent /\ [][NextCurrent]_vars

\* --- SpecInterval: with the slideshow running, one caller changes the interval
\* (scheduler.update_interval, or POST /settings with interval_minutes) while
\* another stops the slideshow; nobody starts it

InitInterval == Running(0, "sequential")

NextInterval ==
    \/ BeginInterval(Main)
    \/ BeginSettings(Main, {[interval_minutes |-> i] : i \in IntervalInputs})
    \/ BeginStop(Other)
    \/ \E t \in Threads :
           \/ GsCheck(t) \/ GsReturn(t)
           \/ UiCheck(t) \/ UiLoad(t) \/ UiSave(t) \/ UiJob(t) \/ UiReturn(t)
           \/ AsCheck(t) \/ AsDisplay(t) \/ IrGet(t)
           \/ SsLoad(t) \/ SsRemove(t) \/ SsAdd(t) \/ SsReturn(t) \/ StRemove(t)
           \/ UsLoad(t) \/ UsSave(t)
           \/ SnLoad(t) \/ GpPhotos(t) \/ SnGot(t)
           \/ Finish(t)

SpecInterval == InitInterval /\ [][NextInterval]_vars

\* --- SpecLive: timer fires, button presses and HTTP requests on two threads
\* with the slideshow running, every thread that is inside an operation being
\* scheduled again and again

InitLive == Running(1, "sequential")

\* the steps a thread takes inside an operation
LiveStep(t) ==
    \/ RotationStep(t)
    \/ GsCheck(t) \/ GsReturn(t)
    \/ SsLoad(t) \/ SsRemove(t) \/ SsAdd(t) \/ SsReturn(t) \/ StRemove(t)
    \/ HnRespond(t)

NextLive ==
    \/ BeginPrev(Main) \/ BeginHttpNext(Other)
    \/ \E t \in Threads :
           \/ BeginNext(t) \/ BeginCycle(t)
           \/ BeginStart(t) \/ BeginStop(t)
           \/ LiveStep(t)

\* the operating system runs every thread that can take a step (WF), and a lock
\* that is released again and again is in the end given to each thread that
\* waits for it (SF on the acquisitions of display_lock and _scheduler_lock)
FairLive ==
    \A t \in Threads :
        /\ WF_vars(LiveStep(t))
        /\ SF_vars(SiLock(t))
        /\ SF_vars(SsRemove(t))
        /\ SF_vars(StRemove(t))

SpecLive == InitLive /\ [][NextLive]_vars /\ FairLive

\* --- SpecFires: the slideshow runs in sequential order over a library that does
\* not change, and nothing but the photo_cycle job acts: its interval elapses
\* again and again and the scheduler's worker threads run each firing to its end

InitFires == \E n \in 1..MaxPhotos : Running(n, "sequential")

NextFires == \E t \in Threads : BeginCycle(t) \/ RotationStep(t)

\* the job stays installed, so its IntervalTrigger keeps firing (WF on the
\* firing), and a worker thread that runs a firing is scheduled until
\* _cycle_photo_job returns (WF on its steps)
FairFires ==
    /\ WF_vars(\E t \in Threads : BeginCycle(t))
    /\ \A t \in Threads : WF_vars(RotationStep(t))

SpecFires == InitFires /\ [][NextFires]_vars /\ FairFires

\* --- SpecSetup: the buttons of the frame: B and C go backward and forward, D
\* enters setup mode (main() found the WiFi configured and did not enter it)

InitSetup == \E n \in 0..MaxPhotos : Start(n, "sequential", 0, FALSE)

NextSetup ==
    \/ BeginPrev(Main) \/ BeginNext(Main) \/ RotationStep(Main)
    \/ ButtonD \/ DoSetupFlag \/ DoSetupAp

SpecSetup == InitSetup /\ [][NextSetup]_vars

\* --- SpecSettings: one caller loads and updates the settings (forward and
\* backward, POST /settings, the re-display) in a process that found
\* settings.json missing, unreadable or without some of its sections, so that
\* load_settings fell back to DEFAULT_SETTINGS for them

\* the states settings.json may be found in
Files ==
    {[kind |-> "missing", has |-> {}], [kind |-> "corrupt", has |-> {}]}
        \cup {[kind |-> "ok", has |-> h] : h \in SUBSET Sections}

InitSettings ==
    \E n \in 0..MaxPhotos, f \in Files :
        /\ photos = Library(n)
        /\ settings = DEFAULT_SETTINGS
        /\ scheduler = 0
        /\ insts = <<>>
        /\ schedLock = "none"
        /\ dispLock = "none"
        /\ pc = [t \in Threads |-> "idle"]
        /\ loc = [t \in Threads |-> NoLocals]
        /\ hist = <<>>
        /\ tracing = FALSE
        /\ setup = NoSetup
        /\ defaults = DEFAULT_SETTINGS
        /\ file = f

NextSettings ==
    \/ BeginNext(Main) \/ BeginPrev(Main)
    \/ BeginSettings(Main, {[order |-> "sequential"], [enabled |-> FALSE],
                            [orientation |-> "vertical"]})
    \/ RotationStep(Main)
    \/ AsCheck(Main) \/ AsDisplay(Main)
    \/ CurrentStep(Main)

SpecSettings == InitSettings /\ [][NextSettings]_vars

\* ------------------------------------------------------------------ the claims

\* the thread goes forward or backward
Rotating(t) == loc[t].op \in {"next", "prev", "cycle"}

\* the thread's operation is over and raised nothing
Completed(t) == pc[t] = "done" /\ loc[t].ret # "raised"

\* the positions a call in direction d1 followed by a call in direction d2 can store
SerialResults(order, list, i, d1, d2) ==
    UNION {NextIndexes(order, list, j, d2) : j \in NextIndexes(order, list, i, d1)}

\* C1: two calls that go forward or backward at the same time (both began on the
\* same stored position) leave the stored position where running them one after
\* the other, in one of the two orders, would leave it.
C1_SerialOrder ==
    \A t, u \in Threads :
        (/\ t # u
         /\ Rotating(t) /\ Rotating(u)
         /\ Completed(t) /\ Completed(u)
         /\ loc[t].pre = loc[u].pre)
        => LET i == loc[t].pre.slideshow.current_index
               o == loc[t].pre.slideshow.order
           IN  settings.slideshow.current_index \in
                   SerialResults(o, photos, i, Direction(loc[t].op), Direction(loc[u].op))
                       \cup SerialResults(o, photos, i, Direction(loc[u].op), Direction(loc[t].op))

\* C2: at most one photo_cycle job is installed in the process, whatever start,
\* stop and interval updates did and however they interleaved.
C2_AtMostOneJob ==
    Cardinality({s \in 1..Len(insts) : Live(s)}) <= 1

AllNext(k) == \A j \in 1..k : hist[j].op = "next"

Sequential == settings.slideshow.order = "sequential"

Random == settings.slideshow.order = "random"

\* C4: with a single photo, going forward or backward returns True, selects that
\* photo and raises nothing, in both orders.
C4_SinglePhoto ==
    Len(photos) = 1 =>
        \A t \in Threads :
            (pc[t] = "done" /\ loc[t].op \in {"next", "prev"})
                => (loc[t].ret # "raised" /\ loc[t].adv = "true" /\ loc[t].photo = photos[1])

C8_NoCandidates ==
    photos = <<>> =>
        \A t \in Threads :
            pc[t] = "done"
                => /\ Rotating(t) => /\ loc[t].adv = "false"
                                     /\ loc[t].ret # "raised"
                                     /\ loc[t].shown = "none"
                                     /\ settings = loc[t].pre
                   /\ loc[t].op = "status" => loc[t].status.photo_count = 0

\* a call backward that found no photo
C8_Witness ==
    /\ photos = <<>>
    /\ pc[Main] = "done" /\ loc[Main].op = "prev" /\ loc[Main].adv = "false"

\* C9 as stated: without photos, start_slideshow returns False and touches
\* neither the scheduler nor the settings.
C9_StartRefused ==
    photos = <<>> =>
        \A t \in Threads :
            (pc[t] = "done" /\ loc[t].op = "start")
                => (loc[t].ret = "false" /\ loc[t].sched = 0 /\ settings = loc[t].pre)

\* C9 as amended: without photos, start_slideshow still installs the job and
\* returns True when the slideshow is enabled (its first show_next_photo returns
\* False); it returns False, and touches no scheduler, only when the slideshow is
\* disabled; no setting changes either way.
C9_StartInstalls ==
    photos = <<>> =>
        \A t \in Threads :
            (pc[t] = "done" /\ loc[t].op = "start")
                => /\ settings = loc[t].pre
                   /\ IF loc[t].pre.slideshow.enabled
                      THEN /\ loc[t].ret = "true"
                           /\ loc[t].sched # 0
                           /\ insts[loc[t].sched].job \in INTERVAL_OPTIONS
                           /\ loc[t].adv = "false"
                      ELSE /\ loc[t].ret = "false"
                           /\ loc[t].sched = 0
                           /\ loc[t].adv = "none"

\* a start without photos that installed the job
C9_Witness ==
    /\ photos = <<>>
    /\ pc[Main] = "done" /\ loc[Main].op = "start" /\ loc[Main].ret = "true"
    /\ Live(loc[Main].sched)

\* the interval the claim expects for a configured interval
Coerced(configured) ==
    IF configured \in {5, 15, 30, 60, 180, 360, 720, 1440} THEN configured ELSE 60

\* C10: the job start_slideshow installs has the configured interval when that is
\* one of 5, 15, 30, 60, 180, 360, 720, 1440, and 60 otherwise (also when
\* /slideshow/start or a posted interval_minutes makes the call).
C10_IntervalCoercion ==
    \A t \in Threads :
        pc[t] = "done"
            => /\ (loc[t].op \in {"start", "http_start"} /\ loc[t].pre.slideshow.enabled)
                    => /\ loc[t].sched # 0
                       /\ insts[loc[t].sched].job = Coerced(loc[t].pre.slideshow.interval_minutes)
               /\ (/\ loc[t].op = "settings"
                   /\ "interval_minutes" \in DOMAIN loc[t].req
                   /\ loc[t].pre.slideshow.enabled
                   /\ insts[loc[t].sched].job # 0)
                    => insts[loc[t].sched].job = Coerced(loc[t].req.interval_minutes)

\* a start with 37 configured that installed a job of 60 minutes
C10_Witness ==
    /\ pc[Main] = "done" /\ loc[Main].op = "start"
    /\ loc[Main].pre.slideshow.interval_minutes = 37
    /\ loc[Main].sched # 0
    /\ insts[loc[Main].sched].job = 60

\* C11: the interval_minutes that settings.json holds is always one of 5, 15, 30,
\* 60, 180, 360, 720, 1440, whatever settings updates, interval updates, starts
\* and stops were made.
C11_PersistedInterval ==
    settings.slideshow.interval_minutes \in {5, 15, 30, 60, 180, 360, 720, 1440}

\* C12: a call forward never selects a photo that had been deleted from the cache
\* when the call began (and was not downloaded again before the call listed the
\* cache), in both orders.
C12_DeletedNeverSelected ==
    \A t \in Threads :
        (loc[t].op = "next" /\ loc[t].photo # 0) => loc[t].photo \notin loc[t].gone

\* a call forward that began after a photo was deleted has selected another one
C12_Witness ==
    /\ pc[Main] = "done" /\ loc[Main].op = "next" /\ loc[Main].adv = "true"
    /\ loc[Main].gone # {}
    /\ loc[Main].photo # 0

\* C13: in sequential order, over a list of n photos that does not change, a call
\* backward from position p selects position (p - 1) mod n (from the first photo
\* it wraps round to the last), and it returns False only when there is no photo.
C13_SequentialRetreat ==
    Sequential =>
        /\ \A k \in 1..Len(hist) :
               hist[k].op = "prev"
                   => /\ hist[k].to = (hist[k].from + Len(photos) - 1) % Len(photos)
                      /\ hist[k].photo = photos[hist[k].to + 1]
        /\ \A t \in Threads :
               (pc[t] = "done" /\ loc[t].op = "prev")
                   => /\ loc[t].ret # "raised"
                      /\ loc[t].adv \in {"true", "false"}
                      /\ loc[t].adv = "false" <=> photos = <<>>

\* a call backward from the first of three photos has selected the last
C13_Witness ==
    /\ Sequential /\ Len(photos) = 3
    /\ pc[Main] = "done" /\ loc[Main].op = "prev" /\ loc[Main].adv = "true"
    /\ loc[Main].pre.slideshow.current_index = 0
    /\ settings.slideshow.current_index = 2
    /\ hist # <<>> /\ hist[Len(hist)].op = "prev" /\ hist[Len(hist)].to = 2

\* C14: when there are photos and the render fails (show_image returns False: no
\* panel, or the image processing or the refresh raised), the call forward or
\* backward still returns True and the position it stored stays stored.
C14_FailedRenderKeepsSelection ==
    \A t \in Threads :
        (pc[t] = "done" /\ loc[t].op \in {"next", "prev"} /\ loc[t].shown = "false")
            => /\ loc[t].adv = "true"
               /\ loc[t].ret # "raised"
               /\ settings.slideshow.current_index = loc[t].idx
               /\ photos[loc[t].idx + 1] = loc[t].photo
               /\ hist # <<>> /\ hist[Len(hist)].to = loc[t].idx

\* a call forward whose render failed, the stored position moved
C14_Witness ==
    /\ pc[Main] = "done" /\ loc[Main].op = "next" /\ loc[Main].shown = "false"
    /\ loc[Main].adv = "true"
    /\ settings.slideshow.current_index # loc[Main].pre.slideshow.current_index

C16_StopRemovesJob ==
    [][\A t \in Threads :
           (loc[t].op = "stop" /\ pc'[t] # pc[t])
               => /\ settings' = settings /\ photos' = photos
                  /\ loc'[t].ret # "raised"
                  /\ Len(insts') >= Len(insts)
                  /\ \A s \in 1..Len(insts') :
                         IF pc[t] = "st_remove"
                         THEN insts'[s].job = 0 /\ insts'[s].started = insts[s].started
                         ELSE insts'[s].job = (IF s <= Len(insts) THEN insts[s].job ELSE 0)
                  /\ pc[t] = "st_remove"
                         => /\ pc'[t] = "done"
                            /\ loc'[t].ret = (IF \E s \in 1..Len(insts) : insts[s].job # 0
                                              THEN "true" ELSE "false")
      ]_vars

\* a stop that found a job and removed it
C16_Witness ==
    /\ pc[Main] = "done" /\ loc[Main].op = "stop" /\ loc[Main].ret = "true"
    /\ \A s \in 1..Len(insts) : insts[s].job = 0

\* C17: once a stop_slideshow has returned and no start_slideshow has installed a
\* job since (the process's scheduler has none), no firing of the photo_cycle job
\* begins.
C17_StoppedTimerSilent ==
    [][\A t \in Threads :
           (loc[t].op = "none" /\ loc'[t].op = "cycle")
               => ~(/\ scheduler # 0
                    /\ insts[scheduler].job = 0
                    /\ \E u \in Threads \ {t} :
                           /\ pc[u] = "done" /\ loc[u].op = "stop"
                           /\ loc[u].sched = scheduler)
      ]_vars

\* C18: a start_slideshow that installs the job goes forward exactly once before
\* it returns, and after the job is installed: nothing is stored before the job
\* is there, and when it returns True with photos in the cache the stored
\* position is one step from where it was (and nothing else has changed).
C18_StartAdvancesOnce ==
    \A t \in Threads :
        loc[t].op = "start"
            => /\ pc[t] \in {"ss_load", "gs_check", "gs_create", "gs_start", "gs_return",
                              "ss_remove", "ss_add"}
                      => (settings = loc[t].pre /\ loc[t].adv = "none")
               /\ pc[t] \in {"sn_load", "gp_photos", "gp_load", "us_load", "us_save", "gp_return",
                              "sn_got", "si_enter", "si_lock", "si_show", "sn_shown", "ss_return"}
                      => insts[loc[t].sched].job # 0
               /\ (pc[t] = "done" /\ loc[t].ret = "true" /\ photos # <<>>)
                      => /\ loc[t].adv = "true"
                         /\ insts[loc[t].sched].job # 0
                         /\ settings = [loc[t].pre EXCEPT !.slideshow.current_index = loc[t].idx]
                         /\ loc[t].idx \in 0..(Len(photos) - 1)
                         /\ IF loc[t].pre.slideshow.order = "random"
                            THEN loc[t].idx # loc[t].pre.slideshow.current_index
                            ELSE loc[t].idx =
                                     (loc[t].pre.slideshow.current_index + 1) % Len(photos)

\* a start on three photos has returned True, the stored position moved
C18_Witness ==
    /\ Len(photos) = 3
    /\ pc[Main] = "done" /\ loc[Main].op = "start" /\ loc[Main].ret = "true"
    /\ loc[Main].adv = "true"
    /\ settings.slideshow.current_index # loc[Main].pre.slideshow.current_index
    /\ Live(loc[Main].sched)

\* C19: the status reports running = true exactly when a photo_cycle job is
\* installed at the time of the query, and next_run = null whenever it reports
\* running = false.
C19_StatusRunning ==
    \A t \in Threads :
        (pc[t] = "done" /\ loc[t].op = "status")
            => /\ loc[t].status.running = (\E s \in 1..Len(insts) : insts[s].job # 0)
               /\ ~loc[t].status.running => loc[t].status.next_run = "null"
               /\ loc[t].ret # "raised"

\* a status taken while the job is installed
C19_Witness ==
    /\ pc[Main] = "done" /\ loc[Main].op = "status"
    /\ loc[Main].status.running /\ loc[Main].status.next_run = "time"
    /\ Live(scheduler)

\* C20: the success value in the JSON response of POST /next and POST /prev is
\* the boolean show_next_photo / show_previous_photo returned (false without
\* photos).
C20_SuccessIsResult ==
    \A t \in Threads :
        (pc[t] = "done" /\ loc[t].op \in {"http_next", "http_prev"} /\ loc[t].ret # "raised")
            => loc[t].ret = loc[t].adv

\* C21: when POST /slideshow/start has completed, settings.json holds enabled =
\* true; when POST /slideshow/stop has completed, it holds enabled = false and no
\* photo_cycle job is installed.
C21_EnabledFollowsHttp ==
    \A t \in Threads :
        (pc[t] = "done" /\ loc[t].ret # "raised")
            => /\ loc[t].op = "http_start" => settings.slideshow.enabled
               /\ loc[t].op = "http_stop"
                      => /\ ~settings.slideshow.enabled
                         /\ \A s \in 1..Len(insts) : insts[s].job = 0

\* a POST /slideshow/stop on a running, enabled slideshow has completed
C21_Witness ==
    /\ pc[Main] = "done" /\ loc[Main].op = "http_stop" /\ loc[Main].ret = "true"
    /\ loc[Main].pre.slideshow.enabled
    /\ ~settings.slideshow.enabled

\* the updates an update_settings call in progress was given, by section
Updates(t) == [slideshow |-> loc[t].upd, display |-> loc[t].updd]

\* C22: an update_settings call changes only the keys its updates name, inside
\* the sections they name: every other key of those sections, and every other
\* section, keeps the value it had.
C22_PartialUpdate ==
    [][\A t \in Threads :
           (pc[t] = "us_save" /\ pc'[t] # "us_save")
               => /\ DOMAIN settings' = DOMAIN settings
                  /\ \A section \in DOMAIN settings :
                         /\ DOMAIN settings'[section] = DOMAIN settings[section]
                         /\ \A key \in DOMAIN settings[section] :
                                settings'[section][key] =
                                    IF key \in DOMAIN Updates(t)[section]
                                    THEN Updates(t)[section][key]
                                    ELSE settings[section][key]
      ]_vars

\* an update of the order alone has kept an interval and an orientation that are
\* not the default ones
C22_Witness ==
    /\ pc[Main] = "as_check" /\ loc[Main].op = "settings"
    /\ DOMAIN loc[Main].req = {"order"}
    /\ settings.slideshow.order = loc[Main].req.order
    /\ settings.slideshow.order # loc[Main].pre.slideshow.order
    /\ settings.slideshow.interval_minutes = 37
    /\ settings.display.orientation = "vertical"

\* C23: in sequential order, when the stored position is past the end of the list
\* (the list shrank), a call forward selects position 0 and a call backward
\* selects the last position.
C23_StaleRestart ==
    Sequential =>
        \A k \in 1..Len(hist) :
            hist[k].from >= Len(photos)
                => /\ hist[k].op = "next" => hist[k].to = 0
                   /\ hist[k].op = "prev" => hist[k].to = Len(photos) - 1

\* C24: in random order with two photos or more and a list that has not changed
\* since the previous selection, neither a call forward nor a call backward
\* selects the photo that is the current selection (the one the previous call
\* selected).
C24_NoRepeatBothWays ==
    (Random /\ Len(photos) >= 2) =>
        \A k \in 2..Len(hist) :
            /\ hist[k].from = hist[k - 1].to
            /\ hist[k].photo # hist[k - 1].photo
            /\ hist[k].photo # photos[hist[k].from + 1]

\* a call backward after a call forward, three photos, two different selections
C24_Witness ==
    /\ Random /\ Len(photos) = 3 /\ Len(hist) >= 2
    /\ hist[1].op = "next" /\ hist[2].op = "prev"
    /\ hist[2].photo # hist[1].photo

\* C25: no render is made under _scheduler_lock: the thread that holds the lock
\* is between the removal and the installation of the job, and a thread inside
\* show_image (or anywhere in a call forward or backward) holds it not.
C25_NoRenderUnderLock ==
    \A t \in Threads :
        /\ schedLock = t => pc[t] = "ss_add"
        /\ pc[t] \in {"si_enter", "si_lock", "si_show"} => schedLock # t

\* the render of the first photo of a start, the job installed and the lock free
C25_Witness ==
    /\ pc[Main] = "si_show" /\ loc[Main].op = "start"
    /\ schedLock = "none"
    /\ Live(loc[Main].sched)

\* C27: a call forward or backward changes only the stored position: when a
\* settings update or a POST /slideshow/stop that ran beside it (the only writer
\* of the order and of the enabled flag) has completed, the values it wrote are
\* the stored ones, whatever the call forward or backward stores after it.
C27_OnlyPosition ==
    \A u \in Threads :
        pc[u] = "done"
            => /\ loc[u].op = "settings"
                      => \A key \in (DOMAIN loc[u].req) \cap SlideshowKeys :
                             settings.slideshow[key] = loc[u].req[key]
               /\ loc[u].op = "http_stop" => ~settings.slideshow.enabled

\* C28: when a POST /slideshow/start made on its own has completed, the
\* slideshow runs (a photo_cycle job is installed) and enabled = true is stored,
\* whatever the enabled flag was before; so it is after a POST /slideshow/stop
\* followed by a POST /slideshow/start.
C28_HttpStartRuns ==
    \A t \in Threads :
        (pc[t] = "done" /\ loc[t].op = "http_start" /\ loc[t].ret # "raised")
            => /\ settings.slideshow.enabled
               /\ \E s \in 1..Len(insts) : insts[s].job # 0

\* C29: whenever the status reports the slideshow as running, the
\* interval_minutes it reports is the interval of the installed photo_cycle job.
C29_StatusInterval ==
    \A t \in Threads :
        (pc[t] = "done" /\ loc[t].op = "status" /\ loc[t].status.running)
            => loc[t].status.interval_minutes = insts[loc[t].sched].job

\* C30: with two photos or more, a call forward in sequential order selects a
\* photo other than the one the previous call (forward or backward) selected,
\* also when photos were downloaded in between.
C30_SequentialMoves ==
    Sequential =>
        \A k \in 2..Len(hist) :
            hist[k].op = "next" => hist[k].photo # hist[k - 1].photo

\* C31: a call forward or backward that selects a photo selects a position
\* inside the listing it made and that position is what it stores;
\* show_current_photo takes the stored position, 0 when it is past the end of
\* its listing, which is inside the listing, and stores nothing.
C31_PositionInRange ==
    [][\A t \in Threads :
           /\ (pc[t] = "gp_load" /\ pc'[t] = "us_load")
                  => /\ loc'[t].idx \in 0..(Len(loc[t].photos) - 1)
                     /\ loc'[t].photo = loc[t].photos[loc'[t].idx + 1]
                     /\ loc'[t].upd.current_index = loc'[t].idx
           /\ (pc[t] = "us_save" /\ pc'[t] = "gp_return")
                  => settings'.slideshow.current_index = loc[t].idx
           /\ (pc[t] = "sc_load" /\ pc'[t] # "sc_load")
                  => /\ loc'[t].idx \in 0..(Len(loc[t].photos) - 1)
                     /\ loc'[t].idx =
                            IF settings.slideshow.current_index >= Len(loc[t].photos)
                            THEN 0 ELSE settings.slideshow.current_index
                     /\ loc'[t].photo = loc[t].photos[loc'[t].idx + 1]
           /\ (pc[t] \in {"sc_photos", "sc_load", "sc_return"}
                   \/ (loc[t].op = "settings" /\ pc[t] \in {"si_enter", "si_lock", "si_show"}))
                  => settings'.slideshow.current_index = settings.slideshow.current_index
      ]_vars

\* show_current_photo has shown the first photo for a stored position past the
\* end of the listing, the position still stored
C31_Witness ==
    /\ pc[Main] = "sc_return"
    /\ loc[Main].shown = "true"
    /\ settings.slideshow.current_index >= Len(photos)
    /\ Len(photos) >= 2
    /\ loc[Main].idx = 0
    /\ loc[Main].photo = photos[1]

\* C32: however the first calls of get_scheduler interleave, one
\* BackgroundScheduler is created and started and every caller gets that one.
C32_OneScheduler ==
    /\ Len(insts) <= 1
    /\ \A s \in 1..Len(insts) : insts[s].started \/ \E t \in Threads : pc[t] = "gs_start"
    /\ \A t, u \in Threads :
           (loc[t].sched # 0 /\ loc[u].sched # 0) => loc[t].sched = loc[u].sched

\* C33: where the only operations are interval updates and stops, a
\* stop_slideshow that has returned leaves no photo_cycle job behind: no
\* interval update (and no restart of the settings handler) that it interleaved
\* with installs the job again.
C33_StopNotUndone ==
    (pc[Other] = "done" /\ loc[Other].op = "stop")
        => insts[scheduler].job = 0

C35_EveryPhotoAgain ==
    \A p \in AllIds :
        []((\E i \in 1..Len(photos) : photos[i] = p)
               => <>(\E t \in Threads :
                         /\ pc[t] = "gp_return" /\ loc[t].op = "cycle"
                         /\ loc[t].photo = p))

\* a firing has gone from the last photo of a full library round to the first
C35_Witness ==
    \E t \in Threads :
        /\ pc[t] = "gp_return" /\ loc[t].op = "cycle"
        /\ Len(photos) = MaxPhotos
        /\ loc[t].pre.slideshow.current_index = MaxPhotos - 1
        /\ loc[t].idx = 0
        /\ settings.slideshow.current_index = 0

\* C36: however many times button D is pressed and however the presses and the
\* threads they start interleave, wifi_manager.start_ap_mode() is run by one
\* do_setup thread at most (and _in_setup_mode, once set, stays set).
C36_SetupOnce ==
    /\ setup.ap <= 1
    /\ setup.ap > 0 => setup.flag

\* C37: whatever loads and updates are made, and whatever state settings.json
\* was found in, the module's DEFAULT_SETTINGS keeps its initial value.
C37_DefaultsIntact ==
    defaults = DEFAULT_SETTINGS

====
